---- MODULE Spec2Model ----
(***************************************************************************)
(* The RTM report pipeline: scripts/fetch_rtm_data.py,                     *)
(* scripts/generate_rtm_report.py, scripts/confluence_publish.py,          *)
(* scripts/send_email.py and scripts/rtm_export_selenium.py.               *)
(* Every script is one process run from its first                          *)
(* module-level statement to its sys.exit; `stage` names the script that   *)
(* runs, `pc` its position and `exit_code` the process exit status.        *)
(* The remote systems (issue tracker, wiki, SMTP server) answer each call  *)
(* with one of the outcomes the calling code distinguishes.                *)
(***************************************************************************)
EXTENDS Integers, Sequences, FiniteSets, TLC

VARIABLES
    stage,        \* which script is running
    pc,           \* position inside the script
    exit_code,    \* process exit status, NoExit while running
    run,          \* number of the current invocation of the script
    \* --- the local file system
    report_dir,   \* the directory report/ exists
    HTML_FILE,    \* report/rtm_report.html
    PDF_FILE,     \* report/rtm_report.pdf
    DATA_FILE,    \* data/rtm_data.json
    \* --- confluence_publish.py
    conf_env,     \* CONFLUENCE_BASE, CONFLUENCE_USER and CONFLUENCE_TOKEN are all set
    wiki_pages,   \* pages of (CONFLUENCE_SPACE, CONFLUENCE_TITLE), in search order
    wiki_att,     \* attachments held by the wiki, in listing order
    wiki0,        \* wiki_pages before the first publish run
    page,         \* find_page()'s return value
    page_id,      \* page_data["id"]
    calls,        \* remote calls issued by the current publish run
    exits,        \* exit codes of the finished publish runs
    \* --- send_email.py
    smtp_env,     \* SMTP_HOST, SMTP_USER and SMTP_PASS are all set
    REPORT_TO,    \* the REPORT_TO environment variable
    msg,          \* build_email()'s return value
    smtp,         \* what the run did on the SMTP connection, in order
    \* --- generate_rtm_report.py
    issues,       \* data.get("issues", [])
    status_summary,
    \* --- fetch_rtm_data.py
    jira_env,     \* JIRA_BASE, JIRA_USER and JIRA_TOKEN are all set
    response,     \* the tracker's answer to the search request
    data,         \* fetch_rtm_data()'s return value
    normalized,   \* normalize_issues(data)["issues"]
    data0,        \* DATA_FILE before the fetch run
    fetch_log,    \* data/fetch_rtm_log.txt as log_summary writes it
    \* --- rtm_export_selenium.py
    export_env,   \* which of JIRA_USER, JIRA_PASS, RTM_PROJECT, TEST_EXECUTION are set
    driver,       \* the browser session: "none", "open" or "quit"
    landing,      \* the page the tracker shows for JIRA_BASE
    authenticated,\* the tracker holds a logged-in session for the browser
    generated,    \* the report has been generated on the report page
    events,       \* what the run did with the browser, in order
    shots,        \* screenshot files in the download directory
    export_pdf,   \* the exported PDF in the download directory
    pending       \* the status of the sys.exit in flight while `finally` runs

fsVars == <<report_dir, HTML_FILE, PDF_FILE, DATA_FILE>>
publishVars == <<conf_env, wiki_pages, wiki_att, wiki0, page, page_id, calls, exits>>
notifyVars == <<smtp_env, REPORT_TO, msg, smtp>>
renderVars == <<issues, status_summary>>
fetchVars == <<jira_env, response, data, normalized, data0, fetch_log>>
exportVars == <<export_env, driver, landing, authenticated, generated, events,
                shots, export_pdf, pending>>

vars == <<stage, pc, exit_code, run, fsVars, publishVars, notifyVars,
          renderVars, fetchVars, exportVars>>

\* ------------------------------------------------------------------ bounds
MaxVersion == 2      \* largest version number of a page in the initial wiki
MaxPages   == 2      \* most pages the title search can return initially
MaxRuns    == 2      \* successive invocations of the publish script
MaxParts   == 2      \* most comma-separated parts of REPORT_TO
MaxIssues  == 3      \* most issues of a dataset given to the renderer
MaxSourceIssues == 2 \* most issues of a tracker response

\* ------------------------------------------------------------ common values
NoExit == 0 - 1

Min(a, b) == IF a < b THEN a ELSE b

\* Text is a sequence of characters.
Chars(n) == [i \in 1..n |-> "x"]
Pass == <<"P", "a", "s", "s">>
Fail == <<"F", "a", "i", "l">>
Unknown == <<"U", "n", "k", "n", "o", "w", "n">>
Unassigned == <<"U", "n", "a", "s", "s", "i", "g", "n", "e", "d">>
KeyText(i) == <<"R", "D", "-", ToString(i)>>

\* The value of a key of a JSON object: the key is absent, or holds null, or
\* holds a string.
Absent == [kind |-> "absent", text |-> <<>>]
Null == [kind |-> "null", text |-> <<>>]
Str(t) == [kind |-> "str", text |-> t]

\* dict.get(key, default)
Get(v, default) == IF v.kind = "absent" THEN default ELSE v

\* A report file of the local file system: absent, or present with what was
\* rendered into it; `gen` is the run that wrote it ("Generated On"), 0 for a
\* file left by an earlier build.
NoFile == [exists |-> FALSE, gen |-> 0, total |-> 0, summary |-> <<>>, rows |-> <<>>]
SomeReport == [exists |-> TRUE, gen |-> 0, total |-> 1,
               summary |-> <<[status |-> Str(Pass), count |-> 1]>>,
               rows |-> <<[key |-> KeyText(1), summary |-> <<>>, type |-> <<>>,
                           priority |-> <<>>, assignee |-> Unassigned,
                           status |-> Pass]>>]

\* data/rtm_data.json: absent, or present with text that is not JSON
\* ("malformed"), a JSON value that is no object ("not_object") or an object
\* whose "issues" are `issues`; `gen` as above ("fetched_at").
NoData == [exists |-> FALSE, gen |-> 0, json |-> "object", issues |-> <<>>]

\* Python's None where a page dict is expected (falsy; real page ids are > 0).
None == [id |-> 0, version |-> 0]

HTML_NAME == "rtm_report.html"
PDF_NAME  == "rtm_report.pdf"
ArtifactNames == {HTML_NAME, PDF_NAME}

\* The outcomes of one remote call that the calling code tells apart:
\*   "ok"     a success status with the expected JSON body,
\*   "status" a non-success status (with a JSON error object as body),
\*   "raise"  requests raised (connection error, body that is not JSON).
Responses == {"ok", "status", "raise"}

\* ===================================================================
\* scripts/confluence_publish.py
\* ===================================================================

\* One request of the run and the wiki's answer to it: one of Responses, or
\* "none" for a request that is never answered.
Call(op, id, version, file, resp) ==
    [op |-> op, id |-> id, version |-> version, file |-> file,
     ok |-> resp = "ok", resp |-> resp]

\* sys.exit(code) / an exception leaving the script
Exit(code) ==
    /\ pc' = "done"
    /\ exit_code' = code

SysExitInTry_caught(code) == Exit(99)

\* sys.exit(code) inside the try of __main__: SystemExit is no Exception, so
\* `except Exception` (publish line 170, notify line 141) lets it pass.
SysExitInTry(code) == Exit(code)

\* log() appends to report/<stage>_log.txt: open() raises FileNotFoundError
\* when report/ does not exist, and outside a try that ends the process with
\* Python's status 1.
LogThenExit(code) ==
    IF report_dir THEN Exit(code) ELSE Exit(1)

\* lines 53-59: module-level validation
PublishValidate ==
    /\ stage = "publish" /\ pc = "validate"
    /\ IF ~conf_env
         THEN LogThenExit(1)
         ELSE IF ~HTML_FILE.exists \/ ~PDF_FILE.exists
                THEN LogThenExit(2)
                ELSE pc' = "find_page" /\ exit_code' = exit_code
    /\ UNCHANGED <<stage, exportVars, run, fsVars, notifyVars, renderVars, fetchVars, conf_env,
                   wiki_pages, wiki_att, wiki0, page, page_id, calls, exits>>

\* lines 79-82: results[0] if results else None
PickPage(results) ==
    IF results # <<>> THEN results[1] ELSE None

\* lines 70-82, called at line 159 inside the try of __main__
find_page ==
    /\ stage = "publish" /\ pc = "find_page"
    /\ \E resp \in Responses :
         /\ calls' = Append(calls, Call("find", 0, 0, "", resp))
         /\ CASE resp = "ok" ->
                   /\ page' = PickPage(wiki_pages)
                   /\ pc' = "create_or_update_page"
                   /\ exit_code' = exit_code
              [] resp = "status" ->
                   /\ SysExitInTry(3)
                   /\ page' = page
              [] resp = "raise" ->
                   /\ Exit(99)
                   /\ page' = page
    /\ UNCHANGED <<stage, exportVars, run, fsVars, notifyVars, renderVars, fetchVars, conf_env,
                   wiki_pages, wiki_att, wiki0, page_id, exits>>

\* line 110: payload["version"] = {"number": current_ver + 1}
NextVersion_resubmit(current_ver) == current_ver

NextVersion(current_ver) == current_ver + 1

\* The id the wiki gives a page it creates.
FreshPageId == Len(wiki_pages) + 1

\* The wiki's pages after a successful PUT of `version` to page `id`.
PagesAfterUpdate(id, version) ==
    [i \in 1..Len(wiki_pages) |->
        IF wiki_pages[i].id = id
          THEN [wiki_pages[i] EXCEPT !.version = version]
          ELSE wiki_pages[i]]

\* The version the wiki holds for page `id`.
CurrentVersion(id) ==
    LET S == {i \in 1..Len(wiki_pages) : wiki_pages[i].id = id}
    IN  IF S = {} THEN 0 ELSE wiki_pages[CHOOSE i \in S : TRUE].version

\* line 98: `if not page` decides between create and update
ShouldCreate(p) == p = None

\* lines 87-116, called at line 160; page_id = page_data["id"] at line 161
create_or_update_page ==
    /\ stage = "publish" /\ pc = "create_or_update_page"
    /\ \E resp \in Responses :
         IF ShouldCreate(page)
           THEN \* lines 99-105: POST /rest/api/content
                /\ calls' = Append(calls, Call("create", 0, 0, "", resp))
                /\ CASE resp = "ok" ->
                          /\ wiki_pages' = Append(wiki_pages,
                                                  [id |-> FreshPageId, version |-> 1])
                          /\ page_id' = FreshPageId
                          /\ pc' = "upload_html"
                          /\ exit_code' = exit_code
                     [] resp = "status" ->
                          /\ SysExitInTry(4)
                          /\ UNCHANGED <<wiki_pages, page_id>>
                     [] resp = "raise" ->
                          /\ Exit(99)
                          /\ UNCHANGED <<wiki_pages, page_id>>
           ELSE \* lines 107-116: PUT /rest/api/content/{page_id}
                LET version == NextVersion(page.version)
                    \* the wiki accepts only the successor of the version it holds
                    accepted == resp = "ok" /\ version = CurrentVersion(page.id) + 1
                    answer == IF accepted THEN "ok"
                              ELSE IF resp = "raise" THEN "raise" ELSE "status"
                IN  /\ calls' = Append(calls,
                                       Call("update", page.id, version, "", answer))
                    /\ CASE accepted ->
                              /\ wiki_pages' = PagesAfterUpdate(page.id, version)
                              /\ page_id' = page.id
                              /\ pc' = "upload_html"
                              /\ exit_code' = exit_code
                         [] ~accepted /\ resp # "raise" ->
                              /\ SysExitInTry(5)
                              /\ UNCHANGED <<wiki_pages, page_id>>
                         [] resp = "raise" ->
                              /\ Exit(99)
                              /\ UNCHANGED <<wiki_pages, page_id>>
    /\ UNCHANGED <<stage, exportVars, run, fsVars, notifyVars, renderVars, fetchVars, conf_env,
                   wiki_att, wiki0, page, exits>>

\* The wiki's listing of the attachments of page `id` (GET .../child/attachment).
Listing(id) == SelectSeq(wiki_att, LAMBDA a : a.page = id)

\* line 132-133: existing_files.get("results", []) of the listing's JSON body;
\* the status of the listing response is not looked at, and the JSON error
\* object of a non-success response has no "results".
ExistingFiles(id, resp) ==
    IF resp = "ok" THEN Listing(id) ELSE <<>>

\* line 133-134: file_name in [a["title"] for a in results]
AlreadyAttached(existing, file_name) ==
    \E i \in 1..Len(existing) : existing[i].title = file_name

\* line 136: next((a["id"] for a in results if a["title"] == file_name), None)
AttachId(existing, file_name) ==
    LET S == {i \in 1..Len(existing) : existing[i].title = file_name}
    IN  existing[CHOOSE i \in S : \A j \in S : i <= j].id

\* The wiki after a successful POST .../child/attachment: one more attachment
\* on the page.  The wiki stores what it is sent, also under a name the page
\* already holds (line 131: "update instead of duplicate"); a wiki that
\* refuses the name answers "status".
AttachedNew(id, file_name) ==
    Append(wiki_att, [id |-> Len(wiki_att) + 1, page |-> id,
                      title |-> file_name, ver |-> 1])

\* The wiki after POST .../child/attachment/{attach_id}/data: a new version
\* of that attachment.
AttachedUpdate(attach_id) ==
    [i \in 1..Len(wiki_att) |->
        IF wiki_att[i].id = attach_id
          THEN [wiki_att[i] EXCEPT !.ver = @ + 1]
          ELSE wiki_att[i]]

\* lines 121-148: upload_attachment(page_id, file_path); `after` is the
\* position of __main__ once the call has returned
upload_attachment(file_name, after) ==
    \E list_resp \in Responses, resp \in Responses :
      LET listed == Call("list", page_id, 0, file_name, list_resp)
      IN
      IF list_resp = "raise"
        THEN \* line 132: .json() raises, caught at line 170
             /\ calls' = Append(calls, listed)
             /\ Exit(99)
             /\ wiki_att' = wiki_att
        ELSE LET existing == ExistingFiles(page_id, list_resp)
                 update == AlreadyAttached(existing, file_name)
                 op == IF update THEN "attach_update" ELSE "attach_new"
             IN  /\ calls' = calls \o <<listed,
                                        Call(op, page_id, 0, file_name, resp)>>
                 /\ CASE resp = "ok" ->
                           /\ wiki_att' = IF update
                                            THEN AttachedUpdate(AttachId(existing, file_name))
                                            ELSE AttachedNew(page_id, file_name)
                           /\ IF after = "done" THEN SysExitInTry(0)
                                ELSE pc' = after /\ exit_code' = exit_code
                      [] resp = "status" ->
                           /\ SysExitInTry(6)
                           /\ wiki_att' = wiki_att
                      [] resp = "raise" ->
                           /\ Exit(99)
                           /\ wiki_att' = wiki_att

\* line 163
UploadHtml ==
    /\ stage = "publish" /\ pc = "upload_html"
    /\ upload_attachment(HTML_NAME, "upload_pdf")
    /\ UNCHANGED <<stage, exportVars, run, fsVars, notifyVars, renderVars, fetchVars, conf_env,
                   wiki_pages, wiki0, page, page_id, exits>>

\* lines 164-168
UploadPdf ==
    /\ stage = "publish" /\ pc = "upload_pdf"
    /\ upload_attachment(PDF_NAME, "done")
    /\ UNCHANGED <<stage, exportVars, run, fsVars, notifyVars, renderVars, fetchVars, conf_env,
                   wiki_pages, wiki0, page, page_id, exits>>

\* The script is run again after it has ended (the pipeline's next build).
PublishRerun ==
    /\ stage = "publish" /\ pc = "done" /\ run < MaxRuns
    /\ run' = run + 1
    /\ exits' = Append(exits, exit_code)
    /\ pc' = "validate"
    /\ exit_code' = NoExit
    /\ calls' = <<>>
    /\ page' = None
    /\ page_id' = 0
    /\ UNCHANGED <<stage, exportVars, fsVars, notifyVars, renderVars, fetchVars, conf_env,
                   wiki_pages, wiki_att, wiki0>>


\* The request a step of __main__ sends first, not answered.
FirstRequest(step) ==
    CASE step = "find_page" -> Call("find", 0, 0, "", "none")
      [] step = "create_or_update_page" ->
            IF ShouldCreate(page)
              THEN Call("create", 0, 0, "", "none")
              ELSE Call("update", page.id, NextVersion(page.version), "", "none")
      [] step = "upload_html" -> Call("list", page_id, 0, HTML_NAME, "none")
      [] OTHER -> Call("list", page_id, 0, PDF_NAME, "none")

\* Lines 73, 101, 112 and 132: requests.get/post/put are called without
\* timeout=, so a wiki that accepts the request and never answers keeps the
\* call, and with it the script, waiting.
WikiSilent ==
    /\ stage = "publish"
    /\ pc \in {"find_page", "create_or_update_page", "upload_html", "upload_pdf"}
    /\ calls' = Append(calls, FirstRequest(pc))
    /\ pc' = "blocked"
    /\ UNCHANGED <<stage, exportVars, exit_code, run, fsVars, notifyVars, renderVars,
                   fetchVars, conf_env, wiki_pages, wiki_att, wiki0, page,
                   page_id, exits>>

\* ===================================================================
\* scripts/send_email.py
\* ===================================================================

\* REPORT_TO: unset, or a string given by its comma-separated parts; a part
\* is empty, blank or an address.
Parts == {"", " ", "qa@org", "dev@org"}

NoRecipients == [set |-> FALSE, parts |-> <<>>]

\* bool(REPORT_TO) in all([...]) at line 56: None and "" are falsy
Truthy(s) == s.set /\ s.parts # <<"">>

\* r.strip()
Strip(r) == IF r = " " THEN "" ELSE r

\* line 64: [r.strip() for r in REPORT_TO.split(",") if r.strip()]
Recipients(s) ==
    LET stripped == [i \in 1..Len(s.parts) |-> Strip(s.parts[i])]
    IN  SelectSeq(stripped, LAMBDA r : r # "")

NoMsg == [To |-> <<>>, attachments |-> <<>>]

\* lines 56-67: module-level validation
NotifyValidate ==
    /\ stage = "notify" /\ pc = "validate"
    /\ IF ~(smtp_env /\ Truthy(REPORT_TO))
         THEN LogThenExit(1)
         ELSE IF ~HTML_FILE.exists \/ ~PDF_FILE.exists
                THEN LogThenExit(2)
                ELSE IF Recipients(REPORT_TO) = <<>>
                       THEN Exit(3)
                       ELSE pc' = "build_email" /\ exit_code' = exit_code
    /\ UNCHANGED <<stage, exportVars, run, fsVars, publishVars, notifyVars, renderVars, fetchVars>>

\* Another process removes a report file after the startup check and before
\* build_email opens it (lines 98 and 104 are the only later reads).
ReportFileVanishes ==
    /\ stage = "notify" /\ pc = "build_email"
    /\ \/ HTML_FILE.exists /\ HTML_FILE' = NoFile /\ PDF_FILE' = PDF_FILE
       \/ PDF_FILE.exists /\ PDF_FILE' = NoFile /\ HTML_FILE' = HTML_FILE
    /\ UNCHANGED <<stage, exportVars, pc, exit_code, run, report_dir, DATA_FILE,
                   publishVars, notifyVars, renderVars, fetchVars>>

\* lines 98 and 104: open(HTML_REPORT, "rb") and open(PDF_REPORT, "rb") raise
\* FileNotFoundError for a file that is not there
BuildEmailRaises_skip_missing == FALSE

BuildEmailRaises == ~HTML_FILE.exists \/ ~PDF_FILE.exists

\* The parts build_email attaches, in order (lines 98-107).
Attached ==
    (IF HTML_FILE.exists THEN <<HTML_NAME>> ELSE <<>>)
       \o (IF PDF_FILE.exists THEN <<PDF_NAME>> ELSE <<>>)

\* lines 72-110, called at line 137; an exception is caught at line 141
build_email ==
    /\ stage = "notify" /\ pc = "build_email"
    /\ IF BuildEmailRaises
         THEN Exit(99) /\ msg' = msg
         ELSE /\ msg' = [To |-> Recipients(REPORT_TO), attachments |-> Attached]
              /\ pc' = "send_email"
              /\ exit_code' = exit_code
    /\ UNCHANGED <<stage, exportVars, run, fsVars, publishVars, smtp_env, REPORT_TO, smtp,
                   renderVars, fetchVars>>

\* The steps of one SMTP session (lines 118-121), in order.
SmtpSteps == <<"connect", "starttls", "login", "sendmail">>

\* lines 115-126, called at line 138: the session runs until the step that
\* raises, `failing` (0: none does); every exception ends in sys.exit(4)
send_email ==
    /\ stage = "notify" /\ pc = "send_email"
    /\ \E failing \in 0..Len(SmtpSteps) :
         /\ smtp' = smtp \o SubSeq(SmtpSteps, 1,
                                   IF failing = 0 THEN Len(SmtpSteps) ELSE failing)
         /\ IF failing = 0 THEN SysExitInTry(0) ELSE SysExitInTry(4)
    /\ UNCHANGED <<stage, exportVars, run, fsVars, publishVars, smtp_env, REPORT_TO, msg,
                   renderVars, fetchVars>>

\* Line 118: smtplib.SMTP(SMTP_HOST, SMTP_PORT) is called without timeout=,
\* so a server that accepts the connection and never sends its greeting
\* keeps the call, and with it the script, waiting.
SmtpSilent ==
    /\ stage = "notify" /\ pc = "send_email"
    /\ smtp' = Append(smtp, "connect")
    /\ pc' = "blocked"
    /\ UNCHANGED <<stage, exportVars, exit_code, run, fsVars, publishVars, smtp_env,
                   REPORT_TO, msg, renderVars, fetchVars>>

\* ===================================================================
\* scripts/generate_rtm_report.py
\* ===================================================================

SUMMARY_WIDTH == 45
ASSIGNEE_WIDTH == 20

\* lines 73-75: status_summary[status] = status_summary.get(status, 0) + 1
Bump(summary, status) ==
    IF \E i \in 1..Len(summary) : summary[i].status = status
      THEN [i \in 1..Len(summary) |->
              IF summary[i].status = status
                THEN [summary[i] EXCEPT !.count = @ + 1]
                ELSE summary[i]]
      ELSE Append(summary, [status |-> status, count |-> 1])

\* lines 72-75: the dict built by the loop, keys in insertion order
RECURSIVE StatusSummary(_)
StatusSummary(rows) ==
    IF rows = <<>> THEN <<>>
    ELSE Bump(StatusSummary(SubSeq(rows, 1, Len(rows) - 1)),
              Get(rows[Len(rows)].status, Str(Unknown)))

\* line 63: `if not issues`
NoIssues_never(loaded) == FALSE

NoIssues(loaded) == loaded = <<>>

\* lines 29-77: module-level directory setup, load and validation
RenderLoad ==
    /\ stage = "render" /\ pc = "load"
    /\ report_dir' = TRUE
    /\ IF ~DATA_FILE.exists
         THEN Exit(1) /\ UNCHANGED renderVars
         ELSE IF DATA_FILE.json = "malformed"
           THEN Exit(2) /\ UNCHANGED renderVars
           ELSE IF DATA_FILE.json = "not_object"
             THEN \* line 62: data.get raises AttributeError
                  Exit(1) /\ UNCHANGED renderVars
             ELSE /\ issues' = DATA_FILE.issues
                  /\ IF NoIssues(DATA_FILE.issues)
                       THEN Exit(3) /\ status_summary' = status_summary
                       ELSE /\ status_summary' = StatusSummary(DATA_FILE.issues)
                            /\ pc' = "generate_html_report"
                            /\ exit_code' = exit_code
    /\ UNCHANGED <<stage, exportVars, run, HTML_FILE, PDF_FILE, DATA_FILE,
                   publishVars, notifyVars, fetchVars>>

\* What a cell shows of a value: tabulate prints None as an empty cell.
Cell(v) == IF v.kind = "str" THEN v.text ELSE <<>>

Default == Str(<<>>)

\* lines 86-94: one table row per issue
HtmlRow(i) ==
    [key      |-> Cell(Get(i.key, Default)),
     summary  |-> Cell(Get(i.summary, Default)),
     type     |-> Cell(Get(i.type, Default)),
     priority |-> Cell(Get(i.priority, Default)),
     assignee |-> Cell(Get(i.assignee, Default)),
     status   |-> Cell(Get(i.status, Default))]

HtmlRows(rows) == [n \in 1..Len(rows) |-> HtmlRow(rows[n])]

\* lines 82-156
generate_html_report ==
    /\ stage = "render" /\ pc = "generate_html_report"
    /\ HTML_FILE' = [exists |-> TRUE, gen |-> run, total |-> Len(issues),
                     summary |-> status_summary, rows |-> HtmlRows(issues)]
    /\ pc' = "generate_pdf_report"
    /\ UNCHANGED <<stage, exportVars, exit_code, run, report_dir, PDF_FILE, DATA_FILE,
                   publishVars, notifyVars, renderVars, fetchVars>>

\* text[:n]
Truncate(text, n) == SubSeq(text, 1, Min(Len(text), n))

\* lines 198 and 201: None[:45] raises TypeError
PdfRowRaises(i) ==
    \/ Get(i.summary, Default).kind = "null"
    \/ Get(i.assignee, Default).kind = "null"

\* lines 197-202: the cells of one table row
PdfRow(i) ==
    [key      |-> Cell(Get(i.key, Default)),
     summary  |-> Truncate(Cell(Get(i.summary, Default)), SUMMARY_WIDTH),
     type     |-> Cell(Get(i.type, Default)),
     priority |-> Cell(Get(i.priority, Default)),
     assignee |-> Truncate(Cell(Get(i.assignee, Default)), ASSIGNEE_WIDTH),
     status   |-> Cell(Get(i.status, Default))]

\* lines 196-203: one table row per issue
PdfRows_skip_long(rows) ==
    LET fits == SelectSeq(rows, LAMBDA i : Len(Cell(Get(i.summary, Default))) <= SUMMARY_WIDTH)
    IN  [n \in 1..Len(fits) |-> PdfRow(fits[n])]

PdfRows(rows) == [n \in 1..Len(rows) |-> PdfRow(rows[n])]

\* lines 161-206, then lines 219-221; an exception ends the process with
\* Python's status 1 before pdf.output is reached
generate_pdf_report ==
    /\ stage = "render" /\ pc = "generate_pdf_report"
    /\ IF \E n \in 1..Len(issues) : PdfRowRaises(issues[n])
         THEN Exit(1) /\ PDF_FILE' = PDF_FILE
         ELSE /\ PDF_FILE' = [exists |-> TRUE, gen |-> run, total |-> Len(issues),
                              summary |-> status_summary, rows |-> PdfRows(issues)]
              /\ Exit(0)
    /\ UNCHANGED <<stage, exportVars, run, report_dir, HTML_FILE, DATA_FILE,
                   publishVars, notifyVars, renderVars, fetchVars>>

\* ===================================================================
\* scripts/fetch_rtm_data.py
\* ===================================================================

\* A nested object of an issue's fields (status, issuetype, priority,
\* assignee): the key is absent, holds null, or holds an object whose name
\* key (name / displayName) is `name`.
NoObj == [kind |-> "absent", name |-> Absent]
NullObj == [kind |-> "null", name |-> Absent]
Obj(name) == [kind |-> "obj", name |-> name]

NoResponse == [outcome |-> "none", status_code |-> 0, json |-> "object", issues |-> <<>>]
NoBody == [json |-> "object", issues |-> <<>>]
NoLog == [written |-> FALSE, total |-> 0, statuses |-> <<>>]

\* lines 38-47: directory setup and module-level validation
FetchValidate ==
    /\ stage = "fetch" /\ pc = "validate"
    /\ IF ~jira_env
         THEN Exit(1)
         ELSE pc' = "fetch_rtm_data" /\ exit_code' = exit_code
    /\ UNCHANGED <<stage, exportVars, run, fsVars, publishVars, notifyVars, renderVars, fetchVars>>

\* line 94: response.status_code != 200 is the failure
StatusOk_any(status_code) == TRUE

StatusOk(status_code) == status_code = 200

\* lines 98-102: response.json() raises for a body that is not JSON
JsonOk(r) == r.json # "malformed"

\* lines 78-104, called at line 161; `r` is the tracker's answer
FetchOutcome(r) ==
    IF r.outcome = "network_error" THEN 2
    ELSE IF ~StatusOk(r.status_code) THEN 3
    ELSE IF ~JsonOk(r) THEN 4
    ELSE 0

\* fields.get(key, {}).get(name_key, default) raises AttributeError when the
\* key holds null (lines 116-119)
NameRaises(o) == o.kind = "null"

NameOf(o, default) ==
    IF o.kind = "absent" THEN default ELSE Get(o.name, default)

\* lines 112-122: one source issue; a key read with .get(key) alone is null
\* when absent
IssueRaises(issue) ==
    \/ NameRaises(issue.fields.status)
    \/ NameRaises(issue.fields.issuetype)
    \/ NameRaises(issue.fields.priority)
    \/ NameRaises(issue.fields.assignee)

NormalizeIssue(issue) ==
    [key      |-> Get(issue.key, Null),
     summary  |-> Get(issue.fields.summary, Str(<<>>)),
     status   |-> NameOf(issue.fields.status, Str(<<>>)),
     type     |-> NameOf(issue.fields.issuetype, Str(<<>>)),
     priority |-> NameOf(issue.fields.priority, Str(<<>>)),
     assignee |-> NameOf(issue.fields.assignee, Str(Unassigned))]

NormalizedIssues_reversed(src) ==
    [n \in 1..Len(src) |-> NormalizeIssue(src[Len(src) + 1 - n])]

\* lines 110-122: one row per source issue, in order
NormalizedIssues(src) == [n \in 1..Len(src) |-> NormalizeIssue(src[n])]

NormalizeRaises(d) ==
    \/ d.json = "not_object"
    \/ \E n \in 1..Len(d.issues) : IssueRaises(d.issues[n])

\* The source issue of position n of a tracker answer: its assignee is
\* absent, null, an object without displayName or an object with one; its
\* status is Pass or Fail.
SourceIssues(n) ==
    {[key |-> Str(KeyText(n)),
      fields |-> [summary |-> Str(Chars(3)), status |-> Obj(Str(st)),
                  issuetype |-> Obj(Str(<<"T">>)), priority |-> Obj(Str(<<"H">>)),
                  assignee |-> a]] :
        st \in {Pass, Fail},
        a \in {NoObj, NullObj, Obj(Absent), Obj(Str(<<"A", "n", "n">>))}}

RECURSIVE SourcesOfLen(_)
SourcesOfLen(n) ==
    IF n = 0 THEN {<<>>}
    ELSE {Append(d, i) : d \in SourcesOfLen(n - 1), i \in SourceIssues(n)}

StatusCodes == {200, 201, 404, 500}

\* The answers of the tracker to the search request: no answer at all, or a
\* status code with a body that is not JSON, is JSON but no object, or is an
\* object with issues.
TrackerResponses ==
    {[outcome |-> "network_error", status_code |-> 0, json |-> "object", issues |-> <<>>]}
    \cup {[outcome |-> "http", status_code |-> c, json |-> j, issues |-> <<>>] :
             c \in StatusCodes, j \in {"malformed", "not_object"}}
    \cup {[outcome |-> "http", status_code |-> c, json |-> "object", issues |-> d] :
             c \in StatusCodes,
             d \in UNION {SourcesOfLen(n) : n \in 0..MaxSourceIssues}}

\* lines 78-104, called at line 161
fetch_rtm_data ==
    /\ stage = "fetch" /\ pc = "fetch_rtm_data"
    /\ \E r \in TrackerResponses :
         /\ response' = r
         /\ IF FetchOutcome(r) # 0
              THEN Exit(FetchOutcome(r)) /\ data' = data
              ELSE /\ data' = [json |-> r.json, issues |-> r.issues]
                   /\ pc' = "normalize_issues"
                   /\ exit_code' = exit_code
    /\ UNCHANGED <<stage, exportVars, run, fsVars, publishVars, notifyVars, renderVars,
                   jira_env, normalized, data0, fetch_log>>

\* lines 109-123, called at line 162; an exception ends the process with
\* Python's status 1
normalize_issues ==
    /\ stage = "fetch" /\ pc = "normalize_issues"
    /\ IF NormalizeRaises(data)
         THEN Exit(1) /\ normalized' = normalized
         ELSE /\ normalized' = NormalizedIssues(data.issues)
              /\ pc' = "save_json"
              /\ exit_code' = exit_code
    /\ UNCHANGED <<stage, exportVars, run, fsVars, publishVars, notifyVars, renderVars,
                   jira_env, response, data, data0, fetch_log>>

\* lines 128-131, called at line 163
save_json ==
    /\ stage = "fetch" /\ pc = "save_json"
    /\ DATA_FILE' = [exists |-> TRUE, gen |-> run, json |-> "object",
                     issues |-> normalized]
    /\ pc' = "log_summary"
    /\ UNCHANGED <<stage, exportVars, exit_code, run, report_dir, HTML_FILE, PDF_FILE,
                   publishVars, notifyVars, renderVars, fetchVars>>

\* lines 138-141: statuses[status] = statuses.get(status, 0) + 1 over the
\* rows, keys in insertion order
LogStatuses(rows) == StatusSummary(rows)

\* lines 136-151, called at line 164, then lines 166-167
log_summary ==
    /\ stage = "fetch" /\ pc = "log_summary"
    /\ fetch_log' = [written |-> TRUE, total |-> Len(normalized),
                     statuses |-> LogStatuses(normalized)]
    /\ Exit(0)
    /\ UNCHANGED <<stage, exportVars, run, fsVars, publishVars, notifyVars, renderVars,
                   jira_env, response, data, normalized, data0>>

\* ============================================== rtm_export_selenium.py ====
\* The browser is driven through one session.  The session answers every
\* driver call made while it is open; a call fails for what the page holds
\* (an element that is not there, a page that does not load), and then raises.

\* os.getenv of the four values the script types into the browser.
EnvSet == [JIRA_USER |-> TRUE, JIRA_PASS |-> TRUE, PROJECT_KEY |-> TRUE,
           TEST_EXEC |-> TRUE]

\* The exported PDF: absent, or present and written by run `gen` (0 for a
\* file left in the download directory by an earlier build).
NoPdf == [exists |-> FALSE, gen |-> 0]
OldPdf == [exists |-> TRUE, gen |-> 0]

SSO_SHOT == "sso_redirect.png"
EXPORT_SHOT == "export_failed.png"
FATAL_SHOT == "fatal_error.png"
Screenshots == {SSO_SHOT, EXPORT_SHOT, FATAL_SHOT}

\* Before the first driver.get no page is shown.
NoLanding == [kind |-> "none", title |-> {}, missing |-> {}]

\* The pages the tracker may show for JIRA_BASE: its login form (whose
\* controls may be missing, one at a time), a page of the tracker for a
\* session that is logged in already, and pages that are neither (the sign-in
\* page of an identity provider, an error page of the vendor).  A title is the
\* set of its words.
LoginControls == {"username", "continue", "password", "submit"}
Landings ==
    {[kind |-> "login", title |-> t, missing |-> m] :
        t \in {{"Log", "in", "with", "Atlassian", "account"}, {"Login"}},
        m \in {{}} \cup {{c} : c \in LoginControls}}
    \cup {[kind |-> "tracker", title |-> {"Dashboard", "Jira"}, missing |-> {}]}
    \cup {[kind |-> "other", title |-> {"Sign", "in"}, missing |-> LoginControls],
          [kind |-> "other", title |-> {"Atlassian", "Error"}, missing |-> LoginControls]}

\* "Atlassian" in driver.title or "Login" in driver.title
IsLoginTitle(title) == "Atlassian" \in title \/ "Login" \in title

\* sys.exit(code) inside the try block: SystemExit leaves through `finally`.
SysExit(code) ==
    /\ pending' = code
    /\ pc' = "finally"

Fatal_no_shot(done) ==
    /\ events' = done
    /\ UNCHANGED shots
    /\ SysExit(4)

\* except Exception (lines 194-197): screenshot, then sys.exit(4).
Fatal(done) ==
    /\ events' = done \o <<FATAL_SHOT>>
    /\ shots' = shots \cup {FATAL_SHOT}
    /\ SysExit(4)

\* Lines 40-102: the download directory, the Chrome binary, the session.
ExportSetup ==
    /\ stage = "export" /\ pc = "start"
    /\ report_dir' = TRUE
    /\ \E chrome_binary \in BOOLEAN, started \in BOOLEAN :
          IF chrome_binary /\ started
          THEN /\ driver' = "open"
               /\ pc' = "base"
               /\ UNCHANGED exit_code
          ELSE /\ pc' = "done"
               /\ exit_code' = 1
               /\ UNCHANGED driver
    /\ UNCHANGED <<stage, run, HTML_FILE, PDF_FILE, DATA_FILE, publishVars,
                   notifyVars, renderVars, fetchVars, export_env, landing,
                   authenticated, generated, events, shots, export_pdf, pending>>

\* Lines 108-113: load JIRA_BASE and wait (at most 30 s) for its body.
OpenBase ==
    /\ stage = "export" /\ pc = "base"
    /\ \E loaded \in BOOLEAN :
          IF loaded
          THEN /\ \E l \in Landings :
                     /\ landing' = l
                     /\ authenticated' = (l.kind = "tracker")
                     /\ pc' = IF IsLoginTitle(l.title) THEN "login" ELSE "report"
               /\ events' = events \o <<"get_base">>
               /\ UNCHANGED <<shots, pending>>
          ELSE /\ Fatal(events \o <<"get_base">>)
               /\ UNCHANGED <<landing, authenticated>>
    /\ UNCHANGED <<stage, exit_code, run, fsVars, publishVars, notifyVars,
                   renderVars, fetchVars, export_env, driver, generated,
                   export_pdf>>

\* The login block (lines 116-142) in the order of the code: each step looks
\* one control up and acts on it; `value` names what send_keys types.
LoginSteps ==
    <<[control |-> "username", value |-> "JIRA_USER", event |-> "type_user"],
      [control |-> "continue", value |-> "", event |-> "click_continue"],
      [control |-> "password", value |-> "JIRA_PASS", event |-> "type_pass"],
      [control |-> "submit", value |-> "", event |-> "click_login"]>>

\* A step raises when its control is not on the page (TimeoutException of
\* wait.until, NoSuchElementException of the second find_element) or when
\* send_keys gets None (TypeError).
StepRaises(step, missing, env) ==
    \/ step.control \in missing
    \/ step.value # "" /\ ~env[step.value]

\* The number of steps of `steps` completed before the first one that raises.
Completed(steps, missing, env) ==
    CHOOSE n \in 0..Len(steps) :
        /\ \A k \in 1..n : ~StepRaises(steps[k], missing, env)
        /\ n < Len(steps) => StepRaises(steps[n + 1], missing, env)

EventsOf(steps, n) == [k \in 1..n |-> steps[k].event]

LoginFailed_continue(done) ==
    /\ events' = done
    /\ pc' = "report"
    /\ UNCHANGED <<shots, pending>>

\* except Exception (lines 147-151): screenshot, then sys.exit(2).
LoginFailed(done) ==
    /\ events' = done \o <<SSO_SHOT>>
    /\ shots' = shots \cup {SSO_SHOT}
    /\ SysExit(2)

\* Lines 114-151: the login form.  After the last click the script sleeps
\* 10 s; whether the tracker accepted the credentials is not looked at.
Authenticate ==
    /\ stage = "export" /\ pc = "login"
    /\ LET n == Completed(LoginSteps, landing.missing, export_env)
           done == events \o EventsOf(LoginSteps, n)
       IN  IF n = Len(LoginSteps)
           THEN /\ events' = done
                /\ pc' = "report"
                /\ \E accepted \in BOOLEAN : authenticated' = accepted
                /\ UNCHANGED <<shots, pending>>
           ELSE /\ LoginFailed(done)
                /\ UNCHANGED authenticated
    /\ UNCHANGED <<stage, exit_code, run, fsVars, publishVars, notifyVars,
                   renderVars, fetchVars, export_env, driver, landing,
                   generated, export_pdf>>

\* The report form (lines 165-170), in the order of the code.
ReportSteps ==
    <<[control |-> "project", value |-> "PROJECT_KEY", event |-> "type_project"],
      [control |-> "execution", value |-> "TEST_EXEC", event |-> "type_execution"],
      [control |-> "generate", value |-> "", event |-> "click_generate"]>>

\* What the report page may lack 8 s after driver.get: nothing, the whole
\* form (it has not rendered), or the Generate button.
ReportPages == {{}, {"project", "execution", "generate"}, {"generate"}}

\* Lines 159-171: load the report page, sleep 8 s, fill the form, click
\* Generate, sleep 10 s.  A browser without a login is shown no form.
OpenReport ==
    /\ stage = "export" /\ pc = "report"
    /\ \E loaded \in BOOLEAN, missing \in ReportPages, finished \in BOOLEAN :
          /\ ~authenticated => missing = {"project", "execution", "generate"}
          /\ IF ~loaded
             THEN /\ Fatal(events \o <<"get_report">>)
                  /\ UNCHANGED generated
             ELSE LET n == Completed(ReportSteps, missing, export_env)
                      done == events \o <<"get_report">> \o EventsOf(ReportSteps, n)
                  IN  IF n = Len(ReportSteps)
                      THEN /\ events' = done
                           /\ generated' = finished
                           /\ pc' = "export"
                           /\ UNCHANGED <<shots, pending>>
                      ELSE /\ Fatal(done)
                           /\ UNCHANGED generated
    /\ UNCHANGED <<stage, exit_code, run, fsVars, publishVars, notifyVars,
                   renderVars, fetchVars, export_env, driver, landing,
                   authenticated, export_pdf>>

\* The export menu (lines 177-179), in the order of the code.
ExportSteps ==
    <<[control |-> "export", value |-> "", event |-> "click_export"],
      [control |-> "pdf", value |-> "", event |-> "click_pdf"]>>

\* What the page may lack when the 10 s are over: nothing, the Export
\* button, or the PDF entry of its menu.
ExportMenus == {{}, {"export", "pdf"}, {"pdf"}}

\* Lines 176-180: click Export, sleep 2 s, click PDF, sleep 20 s.  The
\* download has landed in the download directory by then, or it has not.
ExportPdf ==
    /\ stage = "export" /\ pc = "export"
    /\ \E missing \in ExportMenus, landed \in BOOLEAN :
          LET n == Completed(ExportSteps, missing, export_env)
              done == events \o EventsOf(ExportSteps, n)
          IN  IF n = Len(ExportSteps)
              THEN /\ events' = done
                   /\ export_pdf' = IF landed THEN [exists |-> TRUE, gen |-> run]
                                    ELSE export_pdf
                   /\ pc' = "verify"
                   /\ UNCHANGED <<shots, pending>>
              ELSE /\ Fatal(done)
                   /\ UNCHANGED export_pdf
    /\ UNCHANGED <<stage, exit_code, run, fsVars, publishVars, notifyVars,
                   renderVars, fetchVars, export_env, driver, landing,
                   authenticated, generated>>

\* outdir.glob("*.pdf"): the PDFs of the download directory, which holds the
\* export and, being report/ by default, the rendered rtm_report.pdf.
PdfsInOutdir == {f \in {"export", PDF_NAME} :
                    \/ f = "export" /\ export_pdf.exists
                    \/ f = PDF_NAME /\ PDF_FILE.exists}

\* Lines 185-192: the first PDF found ends the run with 0; none, a screenshot
\* and 3.
VerifyDownload ==
    /\ stage = "export" /\ pc = "verify"
    /\ IF PdfsInOutdir # {}
       THEN /\ SysExit(0)
            /\ UNCHANGED <<events, shots>>
       ELSE /\ events' = events \o <<EXPORT_SHOT>>
            /\ shots' = shots \cup {EXPORT_SHOT}
            /\ SysExit(3)
    /\ UNCHANGED <<stage, exit_code, run, fsVars, publishVars, notifyVars,
                   renderVars, fetchVars, export_env, driver, landing,
                   authenticated, generated, export_pdf>>

Finally_no_quit ==
    /\ stage = "export" /\ pc = "finally"
    /\ exit_code' = pending
    /\ pc' = "done"
    /\ UNCHANGED <<stage, run, fsVars, publishVars, notifyVars, renderVars,
                   fetchVars, export_env, driver, landing, authenticated,
                   generated, events, shots, export_pdf, pending>>

\* Lines 199-200: finally: driver.quit(); then the process ends with the
\* status of the sys.exit in flight.
Finally ==
    /\ stage = "export" /\ pc = "finally"
    /\ driver' = "quit"
    /\ events' = events \o <<"quit">>
    /\ exit_code' = pending
    /\ pc' = "done"
    /\ UNCHANGED <<stage, run, fsVars, publishVars, notifyVars, renderVars,
                   fetchVars, export_env, landing, authenticated, generated,
                   shots, export_pdf, pending>>

\* ===================================================================
\* Initial states and specifications: one per script; the state of the
\* scripts that do not run stays at its idle value.
\* ===================================================================

PublishIdle ==
    /\ conf_env = FALSE /\ wiki_pages = <<>> /\ wiki_att = <<>> /\ wiki0 = <<>>
    /\ page = None /\ page_id = 0 /\ calls = <<>> /\ exits = <<>>

NotifyIdle ==
    /\ smtp_env = FALSE /\ REPORT_TO = NoRecipients /\ msg = NoMsg /\ smtp = <<>>

RenderIdle == issues = <<>> /\ status_summary = <<>>

FetchIdle ==
    /\ jira_env = FALSE /\ response = NoResponse /\ data = NoBody
    /\ normalized = <<>> /\ data0 = NoData /\ fetch_log = NoLog

ExportIdle ==
    /\ export_env = EnvSet /\ driver = "none" /\ landing = NoLanding
    /\ authenticated = FALSE /\ generated = FALSE /\ events = <<>>
    /\ shots = {} /\ export_pdf = NoPdf /\ pending = NoExit

\* The wikis the publish stage can meet: up to MaxPages pages of the title,
\* the first of them holding each report file at most once.
InitialPages ==
    UNION {[1..n -> {[id |-> i, version |-> v] : i \in 1..n, v \in 1..MaxVersion}]
              : n \in 0..MaxPages}

InitialAttachments ==
    {<<>>,
     <<[id |-> 1, page |-> 1, title |-> HTML_NAME, ver |-> 1]>>,
     <<[id |-> 1, page |-> 1, title |-> PDF_NAME, ver |-> 1]>>,
     <<[id |-> 1, page |-> 1, title |-> HTML_NAME, ver |-> 1],
       [id |-> 2, page |-> 1, title |-> PDF_NAME, ver |-> 1]>>}

PublishInit ==
    /\ stage = "publish" /\ pc = "validate" /\ exit_code = NoExit /\ run = 1
    /\ report_dir \in BOOLEAN
    /\ HTML_FILE \in (IF report_dir THEN {NoFile, SomeReport} ELSE {NoFile})
    /\ PDF_FILE \in (IF report_dir THEN {NoFile, SomeReport} ELSE {NoFile})
    /\ DATA_FILE = NoData
    /\ conf_env \in BOOLEAN
    /\ wiki_pages \in {ps \in InitialPages : \A i \in 1..Len(ps) : ps[i].id = i}
    /\ wiki_att \in (IF wiki_pages = <<>> THEN {<<>>} ELSE InitialAttachments)
    /\ wiki0 = wiki_pages
    /\ page = None /\ page_id = 0 /\ calls = <<>> /\ exits = <<>>
    /\ NotifyIdle /\ RenderIdle /\ FetchIdle /\ ExportIdle

PublishNext ==
    \/ PublishValidate
    \/ find_page
    \/ create_or_update_page
    \/ UploadHtml
    \/ UploadPdf
    \/ WikiSilent
    \/ PublishRerun

PublishSpec == PublishInit /\ [][PublishNext]_vars


\* REPORT_TO values of one or two parts.
ReportToValues ==
    {NoRecipients} \cup
    {[set |-> TRUE, parts |-> ps] : ps \in UNION {[1..n -> Parts] : n \in 1..MaxParts}}

NotifyInit ==
    /\ stage = "notify" /\ pc = "validate" /\ exit_code = NoExit /\ run = 1
    /\ report_dir \in BOOLEAN
    /\ HTML_FILE \in (IF report_dir THEN {NoFile, SomeReport} ELSE {NoFile})
    /\ PDF_FILE \in (IF report_dir THEN {NoFile, SomeReport} ELSE {NoFile})
    /\ DATA_FILE = NoData
    /\ smtp_env \in BOOLEAN
    /\ REPORT_TO \in ReportToValues
    /\ msg = NoMsg /\ smtp = <<>>
    /\ PublishIdle /\ RenderIdle /\ FetchIdle /\ ExportIdle

NotifyNext ==
    \/ NotifyValidate
    \/ ReportFileVanishes
    \/ build_email
    \/ send_email
    \/ SmtpSilent

NotifySpec == NotifyInit /\ [][NotifyNext]_vars

\* The issue of position n of a dataset: its key names the position; its
\* status is Pass, Fail or missing; its summary and assignee are both short
\* or both longer than their PDF columns; or its summary is null.
DatasetRows(n) ==
    {[key |-> Str(KeyText(n)), summary |-> t[1], type |-> Str(<<"T">>),
      priority |-> Str(<<"H">>), assignee |-> t[2], status |-> st] :
        t \in {<<Str(Chars(3)), Str(Unassigned)>>,
               <<Str(Chars(SUMMARY_WIDTH + 1)), Str(Chars(ASSIGNEE_WIDTH + 1))>>},
        st \in {Str(Pass), Str(Fail), Absent}}
    \cup {[key |-> Str(KeyText(n)), summary |-> Null, type |-> Str(<<"T">>),
           priority |-> Str(<<"H">>), assignee |-> Str(Unassigned),
           status |-> Str(Pass)]}

RECURSIVE DatasetsOfLen(_)
DatasetsOfLen(n) ==
    IF n = 0 THEN {<<>>}
    ELSE {Append(d, r) : d \in DatasetsOfLen(n - 1), r \in DatasetRows(n)}

Datasets == UNION {DatasetsOfLen(n) : n \in 0..MaxIssues}

DataFiles ==
    {NoData,
     [exists |-> TRUE, gen |-> 0, json |-> "malformed", issues |-> <<>>],
     [exists |-> TRUE, gen |-> 0, json |-> "not_object", issues |-> <<>>]}
    \cup {[exists |-> TRUE, gen |-> 0, json |-> "object", issues |-> d] : d \in Datasets}

RenderInit ==
    /\ stage = "render" /\ pc = "load" /\ exit_code = NoExit /\ run = 1
    /\ report_dir \in BOOLEAN
    /\ HTML_FILE \in (IF report_dir THEN {NoFile, SomeReport} ELSE {NoFile})
    /\ PDF_FILE \in (IF report_dir THEN {NoFile, SomeReport} ELSE {NoFile})
    /\ DATA_FILE \in DataFiles
    /\ issues = <<>> /\ status_summary = <<>>
    /\ PublishIdle /\ NotifyIdle /\ FetchIdle /\ ExportIdle

RenderNext ==
    \/ RenderLoad
    \/ generate_html_report
    \/ generate_pdf_report

RenderSpec == RenderInit /\ [][RenderNext]_vars

\* The dataset an earlier build left in data/rtm_data.json.
OldData ==
    [exists |-> TRUE, gen |-> 0, json |-> "object",
     issues |-> <<[key |-> Str(KeyText(1)), summary |-> Str(Chars(3)),
                   status |-> Str(Pass), type |-> Str(<<"T">>),
                   priority |-> Str(<<"H">>), assignee |-> Str(Unassigned)]>>]

FetchInit ==
    /\ stage = "fetch" /\ pc = "validate" /\ exit_code = NoExit /\ run = 1
    /\ report_dir \in BOOLEAN
    /\ HTML_FILE = NoFile /\ PDF_FILE = NoFile
    /\ DATA_FILE \in {NoData, OldData}
    /\ data0 = DATA_FILE
    /\ jira_env \in BOOLEAN
    /\ response = NoResponse /\ data = NoBody /\ normalized = <<>>
    /\ fetch_log = NoLog
    /\ PublishIdle /\ NotifyIdle /\ RenderIdle /\ ExportIdle

FetchNext ==
    \/ FetchValidate
    \/ fetch_rtm_data
    \/ normalize_issues
    \/ save_json
    \/ log_summary

FetchSpec == FetchInit /\ [][FetchNext]_vars

\* The environments of the export script: every value set, or one of them
\* missing.
ExportEnvs ==
    {EnvSet} \cup {[EnvSet EXCEPT ![v] = FALSE] :
                      v \in {"JIRA_USER", "JIRA_PASS", "PROJECT_KEY", "TEST_EXEC"}}

ExportInit ==
    /\ stage = "export" /\ pc = "start" /\ exit_code = NoExit /\ run = 1
    /\ report_dir \in BOOLEAN
    /\ HTML_FILE = NoFile
    /\ PDF_FILE \in (IF report_dir THEN {NoFile, SomeReport} ELSE {NoFile})
    /\ DATA_FILE = NoData
    /\ export_env \in ExportEnvs
    /\ export_pdf \in (IF report_dir THEN {NoPdf, OldPdf} ELSE {NoPdf})
    /\ driver = "none" /\ landing = NoLanding /\ authenticated = FALSE
    /\ generated = FALSE /\ events = <<>> /\ shots = {} /\ pending = NoExit
    /\ PublishIdle /\ NotifyIdle /\ RenderIdle /\ FetchIdle

ExportNext ==
    \/ ExportSetup
    \/ OpenBase
    \/ Authenticate
    \/ OpenReport
    \/ ExportPdf
    \/ VerifyDownload
    \/ Finally

ExportSpec == ExportInit /\ [][ExportNext]_vars

\* ===================================================================
\* The pipeline: any one of the scripts runs.
\* ===================================================================

Init == PublishInit \/ NotifyInit \/ RenderInit \/ FetchInit \/ ExportInit

Next == PublishNext \/ NotifyNext \/ RenderNext \/ FetchNext \/ ExportNext

Spec == Init /\ [][Next]_vars
\* ------------------------------------------------------------------
\* Properties of the publish stage
\* ------------------------------------------------------------------

CallsOf(ops) == SelectSeq(calls, LAMBDA c : c.op \in ops)

\* find_page() of the current run has returned (a page or None).
LookupReturned ==
    \E i \in 1..Len(calls) : calls[i].op = "find" /\ calls[i].ok

\* create_or_update_page() of the current run has issued its request.
PageWritten == LookupReturned /\ pc # "create_or_update_page"

AttachmentsNamed(id, file_name) ==
    Len(SelectSeq(wiki_att, LAMBDA a : a.page = id /\ a.title = file_name))

\* C1: in one publish run the page write is decided by the lookup alone: no
\* page found gives exactly one create call and no update; a page found at
\* version N gives exactly one update call carrying N+1 and no create; no
\* other version number is ever submitted, and nothing is written before the
\* lookup has returned.
C1_WriteDecidedByLookup ==
    /\ stage = "publish" =>
         /\ ~LookupReturned => CallsOf({"create", "update"}) = <<>>
         /\ \A i \in 1..Len(calls) :
               calls[i].op = "update" =>
                  /\ page # None
                  /\ calls[i].id = page.id
                  /\ calls[i].version = page.version + 1
         /\ PageWritten /\ page = None =>
               /\ Len(CallsOf({"create"})) = 1
               /\ CallsOf({"update"}) = <<>>
         /\ PageWritten /\ page # None =>
               /\ Len(CallsOf({"update"})) = 1
               /\ CallsOf({"create"}) = <<>>

\* C1 witness: a page found at version 2 was updated with version 3.
C1_Witness ==
    /\ stage = "publish" /\ PageWritten
    /\ page.version = 2
    /\ \E i \in 1..Len(calls) :
          calls[i].op = "update" /\ calls[i].version = 3 /\ calls[i].ok

\* The lookup of the current run returned two or more pages (the wiki never
\* loses a page, and the script creates one only after an empty lookup).
ManyMatches == LookupReturned /\ Len(wiki_pages) >= 2

\* C2: a lookup returning two or more pages ends the publish stage with an
\* error, with no page update and no attachment upload issued.
C2_ManyMatchesIsError ==
    stage = "publish" /\ ManyMatches =>
       /\ CallsOf({"update", "attach_new", "attach_update"}) = <<>>
       /\ pc = "done" => exit_code # 0

\* C3: two successive successful publish runs, from a wiki with at most one
\* page of the title, end with exactly one such page whose version grew by
\* one in each run and with exactly one attachment per report file name.
C3_TwoRunsConverge ==
    ( /\ stage = "publish" /\ run = 2 /\ pc = "done"
      /\ exits = <<0>> /\ exit_code = 0
      /\ Len(wiki0) <= 1 ) =>
       /\ Len(wiki_pages) = 1
       /\ wiki_pages[1].version = (IF wiki0 = <<>> THEN 0 ELSE wiki0[1].version) + 2
       /\ \A f \in ArtifactNames : AttachmentsNamed(wiki_pages[1].id, f) = 1

\* upload_attachment(page_id, f) of the current run has returned normally.
Uploaded(file_name) ==
    \E i \in 1..Len(calls) :
       calls[i].op \in {"attach_new", "attach_update"}
          /\ calls[i].file = file_name /\ calls[i].ok

\* C4: a page never holds two attachments of one file name, and once
\* upload_attachment(page, f) has returned normally the page holds exactly
\* one attachment named f.
C4_OneAttachmentPerName ==
    stage = "publish" =>
       /\ \A i \in 1..Len(wiki_pages) : \A f \in ArtifactNames :
             AttachmentsNamed(wiki_pages[i].id, f) <= 1
       /\ \A f \in ArtifactNames :
             Uploaded(f) => AttachmentsNamed(page_id, f) = 1


Writes == {"create", "update", "attach_new", "attach_update"}
Uploads == {"attach_new", "attach_update"}

\* An upload is preceded by a page write that returned success.
UploadsAfterPageWrite ==
    \A i \in 1..Len(calls) :
        calls[i].op \in Uploads =>
            \E j \in 1..(i - 1) : calls[j].op \in {"create", "update"} /\ calls[j].ok

\* The PDF upload is preceded by an HTML upload that returned success.
PdfAfterHtml ==
    \A i \in 1..Len(calls) :
        (calls[i].op \in Uploads /\ calls[i].file = PDF_NAME) =>
            \E j \in 1..(i - 1) :
                calls[j].op \in Uploads /\ calls[j].file = HTML_NAME /\ calls[j].ok

\* No write follows a call of `ops` that failed.
NoWriteAfterFailed(ops) ==
    \A i \in 1..Len(calls) : \A j \in (i + 1)..Len(calls) :
        (calls[i].op \in ops /\ ~calls[i].ok) => calls[j].op \notin Writes

\* C22: in a publish run every upload follows a successful page write, the
\* PDF upload follows a successful HTML upload, and no remote write is issued
\* after a remote call that failed.
C22_NoWriteAfterFailure ==
    stage = "publish" =>
        /\ UploadsAfterPageWrite
        /\ PdfAfterHtml
        /\ NoWriteAfterFailed(Writes \cup {"find", "list"})

\* The calls of `ops` that the wiki answered with a non-success status.
Refused(ops) ==
    {i \in 1..Len(calls) : calls[i].op \in ops /\ calls[i].resp = "status"}

AllOps == Writes \cup {"find", "list"}

\* C23: a non-success response of the wiki to any call of the publish run -
\* lookup, create, update, attachment listing or upload - is the last call of
\* the run, and the run ends with a non-zero exit status.
C23_RefusalEndsRun ==
    stage = "publish" =>
        \A i \in Refused(AllOps) :
            /\ i = Len(calls)
            /\ pc = "done" => exit_code # 0

\* The exit status the script has for a refused call.
SpecificCode(op) ==
    CASE op = "find" -> 3
      [] op = "create" -> 4
      [] op = "update" -> 5
      [] OTHER -> 6

\* A refused page query, create, update or upload ends the run with 3, 4, 5
\* or 6, and 99 is the status only of a run whose last request raised.
PublishKeepsSpecificCode ==
    (stage = "publish" /\ pc = "done") =>
        /\ \A i \in Refused(Writes \cup {"find"}) : exit_code = SpecificCode(calls[i].op)
        /\ exit_code = 99 =>
              (calls # <<>> /\ calls[Len(calls)].resp = "raise")

\* A run that opened the SMTP session ends with 0 or 4, with 4 when the
\* session stopped before its last step; 99 is the status only of a run that
\* failed before the session.
NotifyKeepsSpecificCode ==
    (stage = "notify" /\ pc = "done") =>
        /\ smtp # <<>> => exit_code \in {0, 4}
        /\ (smtp # <<>> /\ Len(smtp) < Len(SmtpSteps)) => exit_code = 4
        /\ exit_code = 99 => smtp = <<>>

\* C27: a failure that a script reports with its own exit status inside the
\* try of __main__ keeps that status: an SMTP failure ends the notify script
\* with 4, a refused page query, create, update or upload ends the publish
\* script with 3, 4, 5 or 6, never with 99 or 0; 99 is left to the faults
\* that have no status of their own.
C27_SpecificCodeKept == PublishKeepsSpecificCode /\ NotifyKeepsSpecificCode

C27_Witness ==
    /\ stage = "publish" /\ pc = "done" /\ exit_code = 5
    /\ Refused({"update"}) # {}

\* C28: a publish run ends with 0 only if its lookup, its page write and both
\* uploads returned success and no remote call of the run failed.
C28_SuccessNeedsEveryCall ==
    (stage = "publish" /\ exit_code = 0) =>
        /\ \E i \in 1..Len(calls) : calls[i].op = "find" /\ calls[i].ok
        /\ \E i \in 1..Len(calls) : calls[i].op \in {"create", "update"} /\ calls[i].ok
        /\ \E i \in 1..Len(calls) :
              calls[i].op \in Uploads /\ calls[i].file = HTML_NAME /\ calls[i].ok
        /\ \E i \in 1..Len(calls) :
              calls[i].op \in Uploads /\ calls[i].file = PDF_NAME /\ calls[i].ok
        /\ \A i \in 1..Len(calls) : calls[i].ok

\* ------------------------------------------------------------------
\* Properties of the notifier
\* ------------------------------------------------------------------

\* C5: while the HTML or the PDF report file is absent (at the startup check
\* or when build_email opens it) no SMTP connection is opened, and the
\* notifier ends with a failure exit code.
C5_MissingFileNoSmtp ==
    (stage = "notify" /\ (~HTML_FILE.exists \/ ~PDF_FILE.exists)) =>
       /\ smtp = <<>>
       /\ pc # "send_email"
       /\ pc = "done" => exit_code \notin {0, NoExit}

\* C5 witness: the PDF disappeared after the startup check; build_email
\* failed and the run ended with 99 without an SMTP connection.
C5_Witness ==
    /\ stage = "notify" /\ pc = "done" /\ exit_code = 99
    /\ HTML_FILE.exists /\ ~PDF_FILE.exists
    /\ smtp = <<>>

\* ------------------------------------------------------------------
\* Properties of the render stage
\* ------------------------------------------------------------------

\* The files this run has written.
WrittenThisRun ==
    {f \in {HTML_FILE, PDF_FILE} : f.exists /\ f.gen = run}

EmptyDataset ==
    DATA_FILE.exists /\ DATA_FILE.json = "object" /\ DATA_FILE.issues = <<>>

\* C6: a dataset of zero issues ends the render stage with exit code 3 (a
\* missing input ends it with 1, malformed JSON with 2) and the run writes
\* neither the HTML nor the PDF report.
C6_EmptyDatasetNoReport ==
    stage = "render" =>
       /\ EmptyDataset => WrittenThisRun = {} /\ pc \in {"load", "done"}
       /\ pc = "done" =>
            /\ EmptyDataset => exit_code = 3
            /\ ~DATA_FILE.exists => exit_code = 1
            /\ (DATA_FILE.exists /\ DATA_FILE.json = "malformed") => exit_code = 2

\* C6 witness: the run on an empty dataset has ended, beside a report of an
\* earlier build.
C6_Witness ==
    /\ stage = "render" /\ pc = "done" /\ EmptyDataset
    /\ exit_code = 3
    /\ HTML_FILE = SomeReport /\ PDF_FILE = SomeReport

Keys(rows) == [n \in 1..Len(rows) |-> rows[n].key]

IsPrefix(s, t) == Len(s) <= Len(t) /\ s = SubSeq(t, 1, Len(s))

\* C10: after a successful render run the HTML table and the PDF table hold
\* one row per issue, for the same keys in the same order (the order of the
\* dataset), both documents show the same total and the same status counts,
\* and a PDF cell differs from the HTML cell only by being cut to its width.
C10_HtmlPdfSameRows ==
    (stage = "render" /\ pc = "done" /\ exit_code = 0) =>
       /\ Len(HTML_FILE.rows) = Len(DATA_FILE.issues)
       /\ Len(PDF_FILE.rows) = Len(HTML_FILE.rows)
       /\ Keys(PDF_FILE.rows) = Keys(HTML_FILE.rows)
       /\ Keys(HTML_FILE.rows) = [n \in 1..Len(DATA_FILE.issues) |->
                                     DATA_FILE.issues[n].key.text]
       /\ PDF_FILE.total = HTML_FILE.total
       /\ PDF_FILE.summary = HTML_FILE.summary
       /\ \A n \in 1..Len(PDF_FILE.rows) :
             /\ IsPrefix(PDF_FILE.rows[n].summary, HTML_FILE.rows[n].summary)
             /\ IsPrefix(PDF_FILE.rows[n].assignee, HTML_FILE.rows[n].assignee)

\* C10 witness: two or more rows were rendered and the summary of the first
\* was cut to the width of the PDF column.
C10_Witness ==
    /\ stage = "render" /\ pc = "done" /\ exit_code = 0
    /\ Len(PDF_FILE.rows) >= 2
    /\ Len(HTML_FILE.rows[1].summary) > SUMMARY_WIDTH
    /\ Len(PDF_FILE.rows[1].summary) = SUMMARY_WIDTH

\* The rows of a table that show status `s`.
Displayed(rows, s) == Cardinality({n \in 1..Len(rows) : rows[n].status = s})

RECURSIVE TotalCount(_)
TotalCount(summary) ==
    IF summary = <<>> THEN 0
    ELSE summary[1].count + TotalCount(Tail(summary))

\* C11: in a rendered HTML report every status of the summary is counted
\* exactly as often as the table shows it, the counts add up to the number of
\* rows, and the table holds one row per issue of the dataset, in its order.
C11_SummaryMatchesTable ==
    (stage = "render" /\ HTML_FILE.exists /\ HTML_FILE.gen = run) =>
       /\ \A i \in 1..Len(HTML_FILE.summary) :
             /\ HTML_FILE.summary[i].status.kind = "str"
             /\ HTML_FILE.summary[i].count =
                   Displayed(HTML_FILE.rows, HTML_FILE.summary[i].status.text)
       /\ TotalCount(HTML_FILE.summary) = Len(HTML_FILE.rows)
       /\ Len(HTML_FILE.rows) = Len(DATA_FILE.issues)
       /\ Keys(HTML_FILE.rows) = [n \in 1..Len(DATA_FILE.issues) |->
                                     DATA_FILE.issues[n].key.text]

\* C24: when the render script has ended, with success or with a failure,
\* report/rtm_report.html and report/rtm_report.pdf, if both are there, were
\* written by the same run from the same dataset.
C24_HtmlPdfSameDataset ==
    (stage = "render" /\ pc = "done" /\ HTML_FILE.exists /\ PDF_FILE.exists) =>
        /\ HTML_FILE.gen = PDF_FILE.gen
        /\ HTML_FILE.total = PDF_FILE.total
        /\ Keys(HTML_FILE.rows) = Keys(PDF_FILE.rows)

\* ------------------------------------------------------------------
\* Properties of the fetch stage
\* ------------------------------------------------------------------

Non2xx(status_code) == status_code < 200 \/ status_code >= 300

\* The tracker answered with a non-2xx status or with a body that is not JSON.
BadAnswer ==
    /\ response.outcome = "http"
    /\ Non2xx(response.status_code) \/ response.json = "malformed"

\* C7: after a non-2xx answer, or an answer whose body is not valid JSON,
\* nothing is normalized or saved: data/rtm_data.json stays as it was before
\* the run, and the run ends with a non-zero exit code.
C7_BadAnswerNothingSaved ==
    (stage = "fetch" /\ BadAnswer) =>
       /\ pc = "done" /\ exit_code \notin {0, NoExit}
       /\ DATA_FILE = data0
       /\ normalized = <<>>

\* C7 witness: a 500 answer carrying a JSON object with an issue ended the
\* run with 3 beside the dataset of an earlier build.
C7_Witness ==
    /\ stage = "fetch" /\ pc = "done" /\ exit_code = 3
    /\ response.status_code = 500 /\ response.json = "object"
    /\ response.issues # <<>>
    /\ DATA_FILE = OldData

\* C8: a successful query that returns zero issues ends the fetch stage with
\* a failure, not with success and an empty dataset.
C8_NoIssuesIsFailure ==
    ( /\ stage = "fetch" /\ pc = "done"
      /\ response.outcome = "http" /\ response.status_code = 200
      /\ response.json = "object" /\ response.issues = <<>> ) =>
       /\ exit_code # 0
       /\ DATA_FILE = data0

AssigneeMissing(issue) ==
    \/ issue.fields.assignee.kind \in {"absent", "null"}
    \/ issue.fields.assignee.name.kind = "absent"

\* C9: normalize_issues completes for every answer and gives each row the
\* assignee "Unassigned" when the source assignee is absent, null or without
\* displayName, and the displayName otherwise.
C9_MissingAssigneeUnassigned ==
    ( /\ stage = "fetch" /\ pc = "done"
      /\ FetchOutcome(response) = 0 /\ response.json = "object" ) =>
       /\ exit_code = 0
       /\ Len(normalized) = Len(response.issues)
       /\ \A n \in 1..Len(normalized) :
             normalized[n].assignee =
                IF AssigneeMissing(response.issues[n])
                  THEN Str(Unassigned)
                  ELSE response.issues[n].fields.assignee.name

\* normalize_issues has returned in the current run.
NormalizeReturned ==
    stage = "fetch" /\ (pc \in {"save_json", "log_summary"} \/ exit_code = 0)

\* C26: when normalize_issues returns, it returns one row per source issue,
\* in the order of the source and with the key of its source issue; the saved
\* dataset holds exactly these rows, and the logged total and status
\* breakdown count exactly these rows.
C26_OneRowPerSourceIssue ==
    NormalizeReturned =>
        /\ Len(normalized) = Len(data.issues)
        /\ \A n \in 1..Len(normalized) : normalized[n].key = data.issues[n].key
        /\ \A n \in 1..Len(normalized) : \A m \in 1..Len(normalized) :
              normalized[n].key = normalized[m].key => n = m
        /\ pc \in {"log_summary", "done"} => DATA_FILE.issues = normalized
        /\ pc = "done" =>
              /\ fetch_log.total = Len(data.issues)
              /\ TotalCount(fetch_log.statuses) = Len(data.issues)
              /\ \A i \in 1..Len(fetch_log.statuses) :
                    fetch_log.statuses[i].count =
                       Cardinality({n \in 1..Len(normalized) :
                                       normalized[n].status = fetch_log.statuses[i].status})

\* C26 witness: two source issues of different status were normalized, saved
\* and logged.
C26_Witness ==
    /\ stage = "fetch" /\ pc = "done" /\ exit_code = 0
    /\ Len(data.issues) = 2
    /\ Len(fetch_log.statuses) = 2
    /\ DATA_FILE.gen = run

\* ===================================================================
\* Properties of the export script
\* ===================================================================

\* The position of the first occurrence of event `e` in the run, 0 for none.
FirstAt(e) ==
    LET at == {i \in 1..Len(events) : events[i] = e}
    IN  IF at = {} THEN 0 ELSE CHOOSE i \in at : \A j \in at : i <= j

Did(e) == FirstAt(e) # 0

\* C12: the export script ends with 0 only if the download directory holds a
\* PDF that this run's export wrote; a PDF that was there before does not
\* make the run a success.
C12_SuccessNeedsNewPdf ==
    (stage = "export" /\ exit_code = 0) =>
        /\ export_pdf.exists
        /\ export_pdf.gen = run

\* C13: whenever the export script leaves with a failure status after the
\* browser session was started, a screenshot has been saved, and it was
\* saved before the session is quit.
C13_ScreenshotBeforeQuit ==
    (stage = "export" /\ driver # "none" /\ pending \notin {NoExit, 0}) =>
        \E i \in 1..Len(events) :
            /\ events[i] \in Screenshots
            /\ events[i] \in shots
            /\ \A j \in 1..i : events[j] # "quit"

C13_Witness ==
    /\ stage = "export" /\ pc = "done" /\ driver = "quit"
    /\ exit_code = 3
    /\ events[Len(events)] = "quit"
    /\ events[Len(events) - 1] = EXPORT_SHOT

\* C14: once the browser session is open, the export script ends (with 0, 2,
\* 3 or 4) only after driver.quit was called.
C14_QuitOnEveryExit ==
    (stage = "export" /\ exit_code # NoExit /\ (driver # "none" \/ events # <<>>)) =>
        /\ driver = "quit"
        /\ events[Len(events)] = "quit"
        /\ exit_code \in {0, 2, 3, 4}

C14_Witness ==
    /\ stage = "export" /\ pc = "done" /\ exit_code = 4
    /\ driver = "quit" /\ Did("get_report")

\* C15: when the page shown for the base URL is neither the login page nor a
\* page of the tracker, the export script saves a screenshot and ends with a
\* failure, and it does not load the report page.
C15_UnrecognizedPageFails ==
    (stage = "export" /\ landing.kind = "other") =>
        /\ ~Did("get_report")
        /\ pc = "done" => (exit_code # 0 /\ shots # {})

\* C16: when the report page was reached and its form submitted but the page
\* has no Export button, the export script ends with 3 (not with 4) and a
\* screenshot is in the download directory.
C16_ExportNotFoundIsThree ==
    (stage = "export" /\ pc = "done" /\ Did("click_generate")
       /\ ~Did("click_export")) =>
        /\ exit_code = 3
        /\ shots # {}

\* C17: when the login page lacks the username input, the password input or a
\* submit control, the export script saves a screenshot and ends with 2, and
\* it does not go on to the report page.
C17_LoginControlMissing ==
    (stage = "export" /\ landing.kind = "login" /\ landing.missing # {}
       /\ pc # "login") =>
        /\ ~Did("get_report")
        /\ SSO_SHOT \in shots
        /\ pending = 2
        /\ pc = "done" => exit_code = 2

C17_Witness ==
    /\ stage = "export" /\ pc = "done" /\ exit_code = 2
    /\ landing.kind = "login" /\ landing.missing = {"submit"}
    /\ export_env = EnvSet
    /\ Did("type_pass") /\ SSO_SHOT \in shots

\* C18: the export script enters a step only after the condition the step
\* depends on was found to hold: it clicks Export only when the report has
\* been generated.
C18_ExportAfterGenerated ==
    (stage = "export" /\ Did("click_export")) => generated

\* C25: after the password was submitted the export script goes on to the
\* report page only with a session the tracker has logged in; with the
\* credentials rejected it does not load the report page.
C25_NavigateOnlyAuthenticated ==
    (stage = "export" /\ Did("click_login") /\ ~authenticated) =>
        ~Did("get_report")

\* ===================================================================
\* Properties of the pipeline
\* ===================================================================

\* The failure statuses of each script and the class of failure that the
\* script reports with it; "unexpected" is an exception nothing handles.
Sites(script, codes) ==
    {[stage |-> script, code |-> c[1], class |-> c[2]] : c \in codes}

FetchExits ==
    Sites("fetch", {<<1, "missing config">>, <<2, "remote query failure">>,
                    <<3, "remote query failure">>, <<4, "malformed response">>,
                    <<1, "unexpected">>})

RenderExits ==
    Sites("render", {<<1, "missing input files">>, <<2, "malformed response">>,
                     <<3, "empty dataset">>, <<1, "render failure">>})

PublishExits ==
    Sites("publish", {<<1, "missing config">>, <<2, "missing input files">>,
                      <<3, "remote query failure">>, <<4, "publish failure">>,
                      <<5, "publish failure">>, <<6, "attachment failure">>,
                      <<99, "unexpected">>, <<1, "unexpected">>})

NotifyExits ==
    Sites("notify", {<<1, "missing config">>, <<2, "missing input files">>,
                     <<3, "missing config">>, <<4, "send failure">>,
                     <<99, "unexpected">>, <<1, "unexpected">>})

ExportExits ==
    Sites("export", {<<1, "extraction/login failure">>,
                     <<2, "extraction/login failure">>,
                     <<3, "export-not-found">>,
                     <<4, "extraction/login failure">>})

ExitSites == FetchExits \cup RenderExits \cup PublishExits \cup NotifyExits
                \cup ExportExits

\* The classes of failure that exit status `code` stands for in the pipeline.
ClassesOf(code) ==
    {s.class : s \in {t \in ExitSites : t.code = code /\ t.class # "unexpected"}}

\* C19: the status a script fails with stands for one class of failure in the
\* whole pipeline, so that the status alone tells the class.
C19_StatusTellsClass ==
    exit_code \notin {NoExit, 0} => Cardinality(ClassesOf(exit_code)) <= 1

\* A value that the running script needs is not configured.
ConfigMissing ==
    \/ stage = "export" /\ export_env # EnvSet
    \/ stage = "fetch" /\ ~jira_env
    \/ stage = "publish" /\ ~conf_env
    \/ stage = "notify" /\ (~smtp_env \/ Recipients(REPORT_TO) = <<>>)

\* The running script has called a remote system or driven the browser.
RemoteWork ==
    \/ events # <<>>
    \/ response # NoResponse
    \/ calls # <<>>
    \/ smtp # <<>>

\* C20: a script that lacks a value of its configuration ends with a failure
\* before it calls a remote system or drives the browser.
C20_MissingConfigFailsAtStartup ==
    ConfigMissing =>
        /\ ~RemoteWork
        /\ pc = "done" => exit_code # 0

\* C21: in the fetch, publish and notify scripts no network call waits
\* without a bound for an answer that never comes, so every run ends with an
\* exit status.
C21_EveryCallBounded ==
    stage \in {"fetch", "publish", "notify"} => pc # "blocked"

====
